---- MODULE Spec2Model ----
(***************************************************************************)
(* The profile form of the Vitalae front end (ProfilePage in src/App.tsx): *)
(* the profile record held in React state, the BMI effect that follows a   *)
(* change of height or weight, the field-change handlers, and the          *)
(* asynchronous submit handler that computes the health risk score.        *)
(*                                                                         *)
(* Numbers with one decimal (bmi, the BMI thresholds) are kept in tenths:  *)
(* bmi 24.2 is 242, the threshold 18.5 is 185.                             *)
(***************************************************************************)
EXTENDS Integers, Sequences, FiniteSets, TLC

VARIABLES
    profileData,  \* the ProfileData record of useState (the rendered state)
    loading,      \* ProfilePage's loading flag
    pending,      \* the profileData closed over by the handleSubmit call that
                  \* is waiting for its timer, or NoSubmit
    bmiEffect,    \* TRUE while the BMI effect's update has not been rendered
    calc,         \* the last completed handleSubmit's computation: its input,
                  \* the value of its local riskScore after each rule, and the
                  \* profile its state update was applied to
    edits,        \* number of field-change events handled so far
    toast,        \* the notification handleSubmit showed last, or "none"
    metrics,      \* the HealthMetrics record of DashboardPage's useState
    user,         \* AuthProvider's user state, or NoUser
    authLoading,  \* AuthProvider's loading state
    storedToken,  \* localStorage's vitalae_token, or NoToken
    authorization,\* axios.defaults.headers.common['Authorization'], or NoHeader
    requests,     \* the HTTP requests of the provider that are in flight
    mounted,      \* TRUE once the provider's two mount effects have run
    location,     \* the router's current path
    authEvent,    \* the provider operation handled last, with its outcome and
                  \* the session it found
    loggedOut,    \* TRUE from a logout until a login or register issued after
                  \* it succeeds
    calls         \* number of provider functions called so far

authVars ==
    <<user, authLoading, storedToken, authorization, requests, mounted,
      location, authEvent, loggedOut, calls>>

profileVars ==
    <<profileData, loading, pending, bmiEffect, calc, edits, toast, metrics>>

vars == <<profileVars, authVars>>

----------------------------------------------------------------------------
(* Bounds of the model *)

\* field-change events per run
MaxEdits == 2

\* calls of login, register, logout and updateUser per run
MaxCalls == 3

(* Program constants *)

\* min / max attributes of the three number inputs
MinHeight == 100
MaxHeight == 250
MinWeight == 20
MaxWeight == 300
MinAge == 1
MaxAge == 120
\* age: user?.age || 30
DefaultAge == 30
\* initial healthRiskScore
InitialRiskScore == 25

SmokingStatuses == {"never", "former", "current"}
AlcoholLevels == {"none", "moderate", "heavy"}
ActivityLevels == {"sedentary", "moderate", "active"}
FlagFields == {"hasHypertension", "hasDiabetes", "hasHighBP"}
FamilyFields == {"heartDisease", "diabetes", "hypertension"}

\* values the model's user types into the number inputs: every age band and
\* every BMI band, with values on both sides of each threshold
EditAges == {30, 36, 50, 70}
EditHeights == {170, 200}
EditWeights == {50, 70, 100}

\* user.age as the auth context supplies it; 0 stands for a missing user or a
\* falsy age
UserAges == {0, 50}

\* Number(e.target.value) of a number input that is empty or holds 0
EmptyInput == 0

\* the doubles Infinity and NaN, as values apart from every bmi in tenths
Infinity == 1000000
NaN == -1

NoSubmit == [none |-> TRUE]

(* Values of the authentication context *)

\* a User record as the API returns it
User(id, age) == [id |-> id, firstName |-> "Ann", age |-> age]
Users == {User("u1", 0), User("u2", 50)}
FirstNames == {"Ann", "Bea"}
Tokens == {"t1", "t2"}

\* user === null, localStorage.getItem(...) === null, no header
NoUser == [none |-> TRUE]
NoToken == "null"
NoHeader == <<>>


\* Bearer without the space after the scheme
BearerWithoutSpace(token) == <<"Bearer", token>>

\* `Bearer ${token}`
Bearer(token) == <<"Bearer ", token>>

NoEvent == [op |-> "none"]

Paths == {"/", "/login", "/dashboard", "/profile", "/analytics"}
ProtectedPaths == {"/dashboard", "/profile", "/analytics"}
NoCalc == [none |-> TRUE]

----------------------------------------------------------------------------
(* Pure functions of the page *)

Min(a, b) == IF a < b THEN a ELSE b

\* height/weight pairs for which the double-precision quotient
\* weight / ((height/100) * (height/100)) falls just below an exact tie x.x5,
\* so that toFixed(1) rounds down where exact arithmetic would round up
FloatBelowTie ==
    { <<104, 169>>, <<112, 196>>, <<136, 289>>, <<160, 48>>, <<160, 80>>,
      <<160, 112>>, <<160, 144>>, <<160, 176>>, <<160, 208>>, <<160, 240>>,
      <<160, 272>> }

\* the comparisons of doubles: false when x is NaN
Lt(x, y) == x # NaN /\ x < y
Le(x, y) == x # NaN /\ x <= y
Ge(x, y) == x # NaN /\ x >= y
Gt(x, y) == x # NaN /\ x > y


\* BMI guarded against a height of 0, for which it stores 0
BMIGuarded(height, weight) ==
    IF height = 0
    THEN 0
    ELSE LET halfUp ==
                 (200000 * weight + height * height) \div (2 * height * height)
         IN  IF <<height, weight>> \in FloatBelowTie THEN halfUp - 1 ELSE halfUp

\* Number((weight / (heightInMeters * heightInMeters)).toFixed(1)), in tenths;
\* a division by 0 gives Infinity, 0 / 0 gives NaN, and toFixed and Number
\* carry both through
BMI(height, weight) ==
    IF height = 0
    THEN IF weight = 0 THEN NaN ELSE Infinity
    ELSE LET halfUp ==
                 (200000 * weight + height * height) \div (2 * height * height)
         IN  IF <<height, weight>> \in FloatBelowTie THEN halfUp - 1 ELSE halfUp


\* getBMICategory with 18.5 itself classified as underweight
getBMICategoryInclusive(bmi) ==
    IF Le(bmi, 185) THEN "Underweight"
    ELSE IF Lt(bmi, 250) THEN "Normal"
    ELSE IF Lt(bmi, 300) THEN "Overweight"
    ELSE "Obese"

getBMICategory(bmi) ==
    IF Lt(bmi, 185) THEN "Underweight"
    ELSE IF Lt(bmi, 250) THEN "Normal"
    ELSE IF Lt(bmi, 300) THEN "Overweight"
    ELSE "Obese"

getRiskLevel(score) ==
    IF score < 30 THEN "Low"
    ELSE IF score < 60 THEN "Medium"
    ELSE "High"


\* DashboardGetRiskLevel with the low band ending below 25
DashboardGetRiskLevelLowBelow25(score) ==
    IF score < 25 THEN "Low"
    ELSE IF score < 60 THEN "Medium"
    ELSE "High"

\* getRiskLevel of DashboardPage
DashboardGetRiskLevel(score) ==
    IF score < 30 THEN "Low"
    ELSE IF score < 60 THEN "Medium"
    ELSE "High"

\* getStatusColor of DashboardPage, the value in tenths
getStatusColor(metric, value) ==
    CASE metric = "heartRate" ->
            (IF Lt(value, 600) THEN "text-blue-600"
             ELSE IF Gt(value, 1000) THEN "text-red-600"
             ELSE "text-green-600")
      [] metric = "spo2" ->
            (IF Lt(value, 950) THEN "text-red-600" ELSE "text-green-600")
      [] metric = "lactate" ->
            (IF Gt(value, 20) THEN "text-red-600"
             ELSE IF Gt(value, 15) THEN "text-yellow-600"
             ELSE "text-green-600")
      [] metric = "bmi" ->
            (IF Lt(value, 185) THEN "text-blue-600"
             ELSE IF Gt(value, 250) THEN "text-yellow-600"
             ELSE "text-green-600")
      [] OTHER -> "text-gray-600"

(* handleSubmit's rules, each taking the running riskScore r *)


\* AgeRule with the thresholds taken inclusively
AgeRuleInclusive(r, p) ==
    IF p.age >= 65 THEN r + 20
    ELSE IF p.age >= 45 THEN r + 15
    ELSE IF p.age >= 35 THEN r + 10
    ELSE r

AgeRule(r, p) ==
    IF p.age > 65 THEN r + 20
    ELSE IF p.age > 45 THEN r + 15
    ELSE IF p.age > 35 THEN r + 10
    ELSE r


\* BmiRule with 18.5 itself counted as underweight
BmiRuleInclusiveUnderweight(r, p) ==
    IF Ge(p.bmi, 300) THEN r + 25
    ELSE IF Ge(p.bmi, 250) THEN r + 15
    ELSE IF Le(p.bmi, 185) THEN r + 10
    ELSE r

BmiRule(r, p) ==
    IF Ge(p.bmi, 300) THEN r + 25
    ELSE IF Ge(p.bmi, 250) THEN r + 15
    ELSE IF Lt(p.bmi, 185) THEN r + 10
    ELSE r


\* SmokingRule with the points of former and current exchanged
SmokingRuleSwapped(r, p) ==
    IF p.smokingStatus = "current" THEN r + 10
    ELSE IF p.smokingStatus = "former" THEN r + 20
    ELSE r

SmokingRule(r, p) ==
    IF p.smokingStatus = "current" THEN r + 20
    ELSE IF p.smokingStatus = "former" THEN r + 10
    ELSE r

AlcoholRule(r, p) ==
    IF p.alcoholConsumption = "heavy" THEN r + 15
    ELSE IF p.alcoholConsumption = "moderate" THEN r + 5
    ELSE r


\* ActivityRule that counts every level other than sedentary as moderate
ActivityRuleWithoutActive(r, p) ==
    IF p.activityLevel = "sedentary" THEN r + 15
    ELSE r + 5

ActivityRule(r, p) ==
    IF p.activityLevel = "sedentary" THEN r + 15
    ELSE IF p.activityLevel = "moderate" THEN r + 5
    ELSE r

HypertensionRule(r, p) == IF p.hasHypertension THEN r + 20 ELSE r

\* DiabetesRule with the points of the hypertension flag
DiabetesRuleAsHypertension(r, p) == IF p.hasDiabetes THEN r + 20 ELSE r

DiabetesRule(r, p) == IF p.hasDiabetes THEN r + 25 ELSE r

\* HighBPRule that does not count high blood pressure on top of hypertension
HighBPRuleUnlessHypertension(r, p) ==
    IF p.hasHighBP /\ ~p.hasHypertension THEN r + 15 ELSE r

HighBPRule(r, p) == IF p.hasHighBP THEN r + 15 ELSE r

FamilyHeartDiseaseRule(r, p) == IF p.familyHistory.heartDisease THEN r + 10 ELSE r
FamilyDiabetesRule(r, p) == IF p.familyHistory.diabetes THEN r + 10 ELSE r
FamilyHypertensionRule(r, p) == IF p.familyHistory.hypertension THEN r + 8 ELSE r


\* RiskSteps that starts from the score stored in the profile it reads
RiskStepsFromStored(p) ==
    LET r1 == AgeRule(p.healthRiskScore, p)
        r2 == BmiRule(r1, p)
        r3 == SmokingRule(r2, p)
        r4 == AlcoholRule(r3, p)
        r5 == ActivityRule(r4, p)
        r6 == HypertensionRule(r5, p)
        r7 == DiabetesRule(r6, p)
        r8 == HighBPRule(r7, p)
        r9 == FamilyHeartDiseaseRule(r8, p)
        r10 == FamilyDiabetesRule(r9, p)
        r11 == FamilyHypertensionRule(r10, p)
    IN  <<r1, r2, r3, r4, r5, r6, r7, r8, r9, r10, r11>>

\* the values the local riskScore takes, rule after rule, starting from 0
RiskSteps(p) ==
    LET r1 == AgeRule(0, p)
        r2 == BmiRule(r1, p)
        r3 == SmokingRule(r2, p)
        r4 == AlcoholRule(r3, p)
        r5 == ActivityRule(r4, p)
        r6 == HypertensionRule(r5, p)
        r7 == DiabetesRule(r6, p)
        r8 == HighBPRule(r7, p)
        r9 == FamilyHeartDiseaseRule(r8, p)
        r10 == FamilyDiabetesRule(r9, p)
        r11 == FamilyHypertensionRule(r10, p)
    IN  <<r1, r2, r3, r4, r5, r6, r7, r8, r9, r10, r11>>

\* riskScore when handleSubmit has applied every rule
RiskScore(p) == RiskSteps(p)[11]

\* PredictedRisk with the thresholds taken inclusively
PredictedRiskInclusive(riskScore) ==
    IF riskScore <= 30 THEN "low"
    ELSE IF riskScore <= 60 THEN "medium"
    ELSE "high"

PredictedRisk(riskScore) ==
    IF riskScore < 30 THEN "low"
    ELSE IF riskScore < 60 THEN "medium"
    ELSE "high"


\* StoredScore without the clamp
StoredScoreUnclamped(riskScore) == riskScore

\* healthRiskScore: Math.min(riskScore, 100)
StoredScore(riskScore) == Min(riskScore, 100)

----------------------------------------------------------------------------
(* State *)

InitialProfile(userAge) ==
    [ height |-> 170,
      weight |-> 70,
      age |-> IF userAge = 0 THEN DefaultAge ELSE userAge,
      bmi |-> 242,
      smokingStatus |-> "never",
      alcoholConsumption |-> "none",
      activityLevel |-> "moderate",
      hasHypertension |-> FALSE,
      hasDiabetes |-> FALSE,
      hasHighBP |-> FALSE,
      familyHistory |->
          [heartDisease |-> FALSE, diabetes |-> FALSE, hypertension |-> FALSE],
      healthRiskScore |-> InitialRiskScore,
      predictedRisk |-> "low" ]

\* after the mount: the BMI effect of the first render has run and stored the
\* 24.2 that height 170 and weight 70 give, which the initial record holds
\* the metrics DashboardPage is constructed with, one-decimal values in
\* tenths; setMetrics is never called
InitialMetrics ==
    [ heartRate |-> 720, spo2 |-> 980, lactate |-> 12, bmi |-> 245,
      riskScore |-> 25 ]

\* the session in which the profile page is shown: the user signed in, no
\* request in flight
SignedIn(u) ==
    /\ user = u
    /\ authLoading = FALSE
    /\ storedToken = "t1"
    /\ authorization = Bearer("t1")
    /\ requests = {}
    /\ mounted = TRUE
    /\ location = "/profile"
    /\ authEvent = NoEvent
    /\ loggedOut = FALSE
    /\ calls = 0

Init ==
    /\ \E userAge \in UserAges :
           /\ profileData = InitialProfile(userAge)
           /\ SignedIn(User("u1", userAge))
    /\ loading = FALSE
    /\ pending = NoSubmit
    /\ bmiEffect = FALSE
    /\ calc = NoCalc
    /\ edits = 0
    /\ toast = "none"
    /\ metrics = InitialMetrics

----------------------------------------------------------------------------
(* Operations *)

\* values an onChange handler can pass for a field
FieldValues(field) ==
    CASE field = "height" -> EditHeights \cup {EmptyInput}
      [] field = "weight" -> EditWeights \cup {EmptyInput}
      [] field = "age" -> EditAges
      [] field = "smokingStatus" -> SmokingStatuses
      [] field = "alcoholConsumption" -> AlcoholLevels
      [] field = "activityLevel" -> ActivityLevels
      [] OTHER -> BOOLEAN

InputFields ==
    {"height", "weight", "age", "smokingStatus", "alcoholConsumption",
     "activityLevel"} \cup FlagFields

\* the effect's dependencies [profileData.height, profileData.weight]
BmiDeps(p) == <<p.height, p.weight>>


\* handleInputChange that also re-evaluates the score from the edited fields
handleInputChangeRecomputing(field, value) ==
    /\ edits < MaxEdits
    /\ value # profileData[field]
    /\ LET edited == [profileData EXCEPT ![field] = value]
       IN  profileData' =
               [edited EXCEPT
                   !.healthRiskScore = StoredScore(RiskScore(edited)),
                   !.predictedRisk = PredictedRisk(RiskScore(edited))]
    /\ bmiEffect' = (bmiEffect \/ BmiDeps(profileData') # BmiDeps(profileData))
    /\ edits' = edits + 1
    /\ UNCHANGED <<loading, pending, calc, toast, metrics, authVars>>

handleInputChange(field, value) ==
    /\ edits < MaxEdits
    /\ value # profileData[field]
    /\ profileData' = [profileData EXCEPT ![field] = value]
    /\ bmiEffect' = (bmiEffect \/ BmiDeps(profileData') # BmiDeps(profileData))
    /\ edits' = edits + 1
    /\ UNCHANGED <<loading, pending, calc, toast, metrics, authVars>>

handleFamilyHistoryChange(field, value) ==
    /\ edits < MaxEdits
    /\ value # profileData.familyHistory[field]
    /\ profileData' = [profileData EXCEPT !.familyHistory[field] = value]
    /\ edits' = edits + 1
    /\ UNCHANGED <<loading, pending, bmiEffect, calc, toast, metrics, authVars>>

\* the BMI effect's update is rendered
BmiEffect ==
    /\ bmiEffect
    /\ profileData' =
           [profileData EXCEPT !.bmi = BMI(profileData.height, profileData.weight)]
    /\ bmiEffect' = FALSE
    /\ UNCHANGED <<loading, pending, calc, edits, toast, metrics, authVars>>

\* the browser's constraint validation of the required number inputs
FormValid(p) ==
    /\ p.height \in MinHeight..MaxHeight
    /\ p.weight \in MinWeight..MaxWeight
    /\ p.age \in MinAge..MaxAge


\* handleSubmit that computes and writes the score before it waits
handleSubmitComputingFirst ==
    /\ ~loading
    /\ FormValid(profileData)
    /\ loading' = TRUE
    /\ pending' = profileData
    /\ profileData' =
           [profileData EXCEPT
               !.healthRiskScore = StoredScore(RiskScore(profileData)),
               !.predictedRisk = PredictedRisk(RiskScore(profileData))]
    /\ UNCHANGED <<bmiEffect, calc, edits, toast, metrics, authVars>>

\* the submit event: handleSubmit up to its await
handleSubmit ==
    /\ ~loading
    /\ FormValid(profileData)
    /\ loading' = TRUE
    /\ pending' = profileData
    /\ UNCHANGED <<profileData, bmiEffect, calc, edits, toast, metrics, authVars>>

\* whether the try block raises for the profile it reads: the awaited timer
\* promise always resolves, and comparing and adding numbers, Infinity and
\* NaN among them, never raises
TryRaises(p) == FALSE


\* SubmitResolve that writes the profile it closed over back, with the score
SubmitResolveFromClosure ==
    /\ pending # NoSubmit
    /\ IF TryRaises(pending)
       THEN /\ toast' = "error"
            /\ UNCHANGED <<profileData, calc>>
       ELSE LET riskScore == RiskScore(pending)
                predictedRisk == PredictedRisk(riskScore)
            IN  /\ profileData' =
                      [pending EXCEPT
                          !.healthRiskScore = StoredScore(riskScore),
                          !.predictedRisk = predictedRisk]
                /\ calc' = [input |-> pending, steps |-> RiskSteps(pending),
                            before |-> profileData]
                /\ toast' = "success"
    /\ loading' = FALSE
    /\ pending' = NoSubmit
    /\ UNCHANGED <<bmiEffect, edits, metrics, authVars>>

\* the timer fires: handleSubmit from its await to its end
SubmitResolve ==
    /\ pending # NoSubmit
    /\ IF TryRaises(pending)
       THEN /\ toast' = "error"
            /\ UNCHANGED <<profileData, calc>>
       ELSE LET riskScore == RiskScore(pending)
                predictedRisk == PredictedRisk(riskScore)
            IN  /\ profileData' =
                      [profileData EXCEPT
                          !.healthRiskScore = StoredScore(riskScore),
                          !.predictedRisk = predictedRisk]
                /\ calc' = [input |-> pending, steps |-> RiskSteps(pending),
                            before |-> profileData]
                /\ toast' = "success"
    /\ loading' = FALSE
    /\ pending' = NoSubmit
    /\ UNCHANGED <<bmiEffect, edits, metrics, authVars>>

Next ==
    \/ \E field \in InputFields : \E value \in FieldValues(field) :
           handleInputChange(field, value)
    \/ \E field \in FamilyFields : \E value \in BOOLEAN :
           handleFamilyHistoryChange(field, value)
    \/ BmiEffect
    \/ handleSubmit
    \/ SubmitResolve

Spec == Init /\ [][Next]_vars

----------------------------------------------------------------------------
(* The calculator applied to a profile: the form holds any profile its      *)
(* fields can be edited to, never yet submitted, and is then submitted.     *)

\* a profile the form's fields can be edited to, its BMI effect rendered
EditedProfile(age, height, weight, smoking, alcohol, activity, flags, family) ==
    [ InitialProfile(age) EXCEPT
        !.height = height,
        !.weight = weight,
        !.bmi = BMI(height, weight),
        !.smokingStatus = smoking,
        !.alcoholConsumption = alcohol,
        !.activityLevel = activity,
        !.hasHypertension = "hasHypertension" \in flags,
        !.hasDiabetes = "hasDiabetes" \in flags,
        !.hasHighBP = "hasHighBP" \in flags,
        !.familyHistory = [f \in FamilyFields |-> f \in family] ]

\* every combination of the edit values of the fields
CombinedProfile(p) ==
    \E a \in EditAges, h \in EditHeights, w \in EditWeights,
       s \in SmokingStatuses, al \in AlcoholLevels, ac \in ActivityLevels,
       fl \in SUBSET FlagFields, fa \in SUBSET FamilyFields :
        p = EditedProfile(a, h, w, s, al, ac, fl, fa)

\* every age the age input accepts, the other fields as first rendered
AgeProfile(p) ==
    \E a \in MinAge..MaxAge :
        p = EditedProfile(a, 170, 70, "never", "none", "moderate", {}, {})

\* every height and weight the inputs accept, the other fields as first rendered
BodyProfile(p) ==
    \E h \in MinHeight..MaxHeight, w \in MinWeight..MaxWeight :
        p = EditedProfile(DefaultAge, h, w, "never", "none", "moderate", {}, {})

\* a young, active profile of normal weight: age 25, 200 cm and 88 kg (bmi 22.0)
HealthyProfile(p) ==
    p = EditedProfile(25, 200, 88, "never", "none", "active", {}, {})

EvalInit ==
    /\ SignedIn(User("u1", 0))
    /\ \/ CombinedProfile(profileData)
       \/ HealthyProfile(profileData)
       \/ AgeProfile(profileData)
       \/ BodyProfile(profileData)
    /\ loading = FALSE
    /\ pending = NoSubmit
    /\ bmiEffect = FALSE
    /\ calc = NoCalc
    /\ edits = 0
    /\ toast = "none"
    /\ metrics = InitialMetrics

EvalNext ==
    \/ handleSubmit
    \/ SubmitResolve

SpecEval == EvalInit /\ [][EvalNext]_vars

----------------------------------------------------------------------------
(* The authentication context (AuthProvider) and the router's protected     *)
(* routes. A handler, or the continuation of an await, runs to completion:  *)
(* its writes to state, localStorage and the axios defaults are one step.   *)


\* ProtectedRoute that tests the user before the loading flag
ProtectedRouteUserFirst(u, isLoading) ==
    IF u = NoUser THEN "redirect"
    ELSE IF isLoading THEN "spinner"
    ELSE "content"

\* what ProtectedRoute renders
ProtectedRoute(u, isLoading) ==
    IF isLoading THEN "spinner"
    ELSE IF u = NoUser THEN "redirect"
    ELSE "content"

\* the session as an operation finds it
Session == <<user, storedToken, authorization>>

\* the profile page, not part of the provider
ProfileUnmounted ==
    /\ profileData = InitialProfile(0)
    /\ loading = FALSE
    /\ pending = NoSubmit
    /\ bmiEffect = FALSE
    /\ calc = NoCalc
    /\ edits = 0
    /\ toast = "none"
    /\ metrics = InitialMetrics

\* the app is loaded on any path, with or without a token of an earlier visit
AuthInit ==
    /\ user = NoUser
    /\ authLoading = TRUE
    /\ storedToken \in Tokens \cup {NoToken}
    /\ authorization = NoHeader
    /\ requests = {}
    /\ mounted = FALSE
    /\ location \in Paths
    /\ authEvent = NoEvent
    /\ loggedOut = FALSE
    /\ calls = 0
    /\ ProfileUnmounted


\* Mount whose checkAuth is not awaited before loading is set false
MountWithoutAwait ==
    /\ ~mounted
    /\ mounted' = TRUE
    /\ IF storedToken # NoToken
       THEN /\ authorization' = Bearer(storedToken)
            /\ requests' = requests \cup {[kind |-> "profile", stale |-> FALSE]}
       ELSE UNCHANGED <<authorization, requests>>
    /\ authLoading' = FALSE
    /\ authEvent' = [op |-> "mount", before |-> Session]
    /\ UNCHANGED <<user, storedToken, location, loggedOut, calls, profileVars>>

\* the two mount effects: the header from the stored token, then checkAuth up
\* to its await, or to its end when no token is stored
Mount ==
    /\ ~mounted
    /\ mounted' = TRUE
    /\ IF storedToken # NoToken
       THEN /\ authorization' = Bearer(storedToken)
            /\ requests' = requests \cup {[kind |-> "profile", stale |-> FALSE]}
            /\ authLoading' = authLoading
       ELSE /\ authLoading' = FALSE
            /\ UNCHANGED <<authorization, requests>>
    /\ authEvent' = [op |-> "mount", before |-> Session]
    /\ UNCHANGED <<user, storedToken, location, loggedOut, calls, profileVars>>


\* CheckAuthResolve whose catch removes the token but not the header
CheckAuthResolveKeepingHeader(outcome, u) ==
    /\ \E r \in requests :
           /\ r.kind = "profile"
           /\ requests' = requests \ {r}
           /\ authEvent' = [op |-> "checkAuth", outcome |-> outcome,
                            stale |-> r.stale, before |-> Session]
    /\ IF outcome = "success"
       THEN /\ user' = u
            /\ UNCHANGED <<storedToken, authorization>>
       ELSE /\ storedToken' = NoToken
            /\ authorization' =
                   (IF outcome = "rejected" THEN authorization ELSE NoHeader)
            /\ user' = user
    /\ authLoading' = FALSE
    /\ UNCHANGED <<mounted, location, loggedOut, calls, profileVars>>

\* the profile request ends: checkAuth from its await to its end
CheckAuthResolve(outcome, u) ==
    /\ \E r \in requests :
           /\ r.kind = "profile"
           /\ requests' = requests \ {r}
           /\ authEvent' = [op |-> "checkAuth", outcome |-> outcome,
                            stale |-> r.stale, before |-> Session]
    /\ IF outcome = "success"
       THEN /\ user' = u
            /\ UNCHANGED <<storedToken, authorization>>
       ELSE /\ storedToken' = NoToken
            /\ authorization' = NoHeader
            /\ user' = user
    /\ authLoading' = FALSE
    /\ UNCHANGED <<mounted, location, loggedOut, calls, profileVars>>

Outcomes == {"success", "failure", "rejected"}

\* login or register up to its await; the forms that call them disable their
\* submit button while the provider is loading
CredentialRequest(kind) ==
    /\ mounted
    /\ ~authLoading
    /\ calls < MaxCalls
    /\ authLoading' = TRUE
    /\ requests' = requests \cup {[kind |-> kind, stale |-> FALSE]}
    /\ authEvent' = [op |-> kind, outcome |-> "pending", before |-> Session]
    /\ calls' = calls + 1
    /\ UNCHANGED <<user, storedToken, authorization, mounted, location,
                   loggedOut, profileVars>>

\* login or register from its await to its end, the response carrying the
\* user u and the token t when it reports success
CredentialResolve(kind, outcome, u, t) ==
    /\ \E r \in requests :
           /\ r.kind = kind
           /\ requests' = requests \ {r}
           /\ authEvent' = [op |-> kind, outcome |-> outcome,
                            returned |-> (outcome = "success"),
                            toast |-> (IF outcome = "success" THEN "success"
                                       ELSE "error"),
                            stale |-> r.stale, responseUser |-> u,
                            responseToken |-> t, before |-> Session]
           /\ loggedOut' = (loggedOut /\ ~(outcome = "success" /\ ~r.stale))
    /\ IF outcome = "success"
       THEN /\ user' = u
            /\ storedToken' = t
            /\ authorization' = Bearer(t)
       ELSE UNCHANGED <<user, storedToken, authorization>>
    /\ authLoading' = FALSE
    /\ UNCHANGED <<mounted, location, calls, profileVars>>

login == CredentialRequest("login")


\* LoginResolve that resets loading at the end of the try block, not in a
\* finally, so that a rejected request leaves it set
LoginResolveWithoutFinally(outcome, u, t) ==
    /\ \E r \in requests :
           /\ r.kind = "login"
           /\ requests' = requests \ {r}
           /\ authEvent' = [op |-> "login", outcome |-> outcome,
                            returned |-> (outcome = "success"),
                            toast |-> (IF outcome = "success" THEN "success"
                                       ELSE "error"),
                            stale |-> r.stale, responseUser |-> u,
                            responseToken |-> t, before |-> Session]
           /\ loggedOut' = (loggedOut /\ ~(outcome = "success" /\ ~r.stale))
    /\ IF outcome = "success"
       THEN /\ user' = u
            /\ storedToken' = t
            /\ authorization' = Bearer(t)
       ELSE UNCHANGED <<user, storedToken, authorization>>
    /\ authLoading' = (outcome = "rejected" /\ authLoading)
    /\ UNCHANGED <<mounted, location, calls, profileVars>>

LoginResolve(outcome, u, t) == CredentialResolve("login", outcome, u, t)

register == CredentialRequest("register")


\* RegisterResolve that tears the session down when the request fails
RegisterResolveClearingOnFailure(outcome, u, t) ==
    /\ \E r \in requests :
           /\ r.kind = "register"
           /\ requests' = requests \ {r}
           /\ authEvent' = [op |-> "register", outcome |-> outcome,
                            returned |-> (outcome = "success"),
                            toast |-> (IF outcome = "success" THEN "success"
                                       ELSE "error"),
                            stale |-> r.stale, responseUser |-> u,
                            responseToken |-> t, before |-> Session]
           /\ loggedOut' = (loggedOut /\ ~(outcome = "success" /\ ~r.stale))
    /\ IF outcome = "success"
       THEN /\ user' = u
            /\ storedToken' = t
            /\ authorization' = Bearer(t)
       ELSE /\ user' = NoUser
            /\ storedToken' = NoToken
            /\ authorization' = NoHeader
    /\ authLoading' = FALSE
    /\ UNCHANGED <<mounted, location, calls, profileVars>>

RegisterResolve(outcome, u, t) == CredentialResolve("register", outcome, u, t)


\* logout that leaves the Authorization header in place
logoutKeepingHeader ==
    /\ mounted
    /\ calls < MaxCalls
    /\ user' = NoUser
    /\ storedToken' = NoToken
    /\ requests' = {[r EXCEPT !.stale = TRUE] : r \in requests}
    /\ loggedOut' = TRUE
    /\ authEvent' = [op |-> "logout", toast |-> "success", before |-> Session]
    /\ calls' = calls + 1
    /\ UNCHANGED <<authorization, authLoading, mounted, location, profileVars>>

logout ==
    /\ mounted
    /\ calls < MaxCalls
    /\ user' = NoUser
    /\ storedToken' = NoToken
    /\ authorization' = NoHeader
    /\ requests' = {[r EXCEPT !.stale = TRUE] : r \in requests}
    /\ loggedOut' = TRUE
    /\ authEvent' = [op |-> "logout", toast |-> "success", before |-> Session]
    /\ calls' = calls + 1
    /\ UNCHANGED <<authLoading, mounted, location, profileVars>>

\* the Partial<User> values updateUser is called with
PartialUsers == {<<>>} \cup {[firstName |-> n] : n \in FirstNames}

\* { ...u, ...userData }
Spread(u, userData) ==
    [f \in DOMAIN u |-> IF f \in DOMAIN userData THEN userData[f] ELSE u[f]]

updateUser(userData) ==
    /\ mounted
    /\ calls < MaxCalls
    /\ user' = IF user # NoUser THEN Spread(user, userData) ELSE user
    /\ authEvent' = [op |-> "updateUser", before |-> Session]
    /\ calls' = calls + 1
    /\ UNCHANGED <<authLoading, storedToken, authorization, requests, mounted,
                   location, loggedOut, profileVars>>

\* the user follows a link or enters a path
NavigateTo(path) ==
    /\ mounted
    /\ path # location
    /\ location' = path
    /\ UNCHANGED <<user, authLoading, storedToken, authorization, requests,
                   mounted, authEvent, loggedOut, calls, profileVars>>

\* the <Navigate to="/login" replace /> that ProtectedRoute renders
RedirectToLogin ==
    /\ mounted
    /\ location \in ProtectedPaths
    /\ ProtectedRoute(user, authLoading) = "redirect"
    /\ location' = "/login"
    /\ UNCHANGED <<user, authLoading, storedToken, authorization, requests,
                   mounted, authEvent, loggedOut, calls, profileVars>>

\* LandingPage's effect: a signed-in user is sent on to the dashboard
LandingRedirect ==
    /\ mounted
    /\ location = "/"
    /\ user # NoUser
    /\ location' = "/dashboard"
    /\ UNCHANGED <<user, authLoading, storedToken, authorization, requests,
                   mounted, authEvent, loggedOut, calls, profileVars>>

AuthNext ==
    \/ Mount
    \/ \E outcome \in Outcomes, u \in Users : CheckAuthResolve(outcome, u)
    \/ login
    \/ \E outcome \in Outcomes, u \in Users, t \in Tokens :
           LoginResolve(outcome, u, t)
    \/ register
    \/ \E outcome \in Outcomes, u \in Users, t \in Tokens :
           RegisterResolve(outcome, u, t)
    \/ logout
    \/ \E userData \in PartialUsers : updateUser(userData)
    \/ \E path \in Paths : NavigateTo(path)
    \/ RedirectToLogin
    \/ LandingRedirect

SpecAuth == AuthInit /\ [][AuthNext]_vars

\* requests complete, effects and redirects run
AuthFairness ==
    /\ WF_vars(Mount)
    /\ WF_vars(\E outcome \in Outcomes, u \in Users : CheckAuthResolve(outcome, u))
    /\ WF_vars(\E outcome \in Outcomes, u \in Users, t \in Tokens :
                   LoginResolve(outcome, u, t))
    /\ WF_vars(\E outcome \in Outcomes, u \in Users, t \in Tokens :
                   RegisterResolve(outcome, u, t))

SpecAuthFair == SpecAuth /\ AuthFairness

----------------------------------------------------------------------------
(* The specification's rule table and thresholds, as the claims state them *)

ThresholdCategory(score) ==
    IF score < 30 THEN "low"
    ELSE IF score < 60 THEN "medium"
    ELSE "high"

LevelCategory(level) ==
    CASE level = "Low" -> "low"
      [] level = "Medium" -> "medium"
      [] level = "High" -> "high"

\* weight / (height/100)^2 rounded to one decimal, in tenths
RoundedBmi(height, weight) ==
    (200000 * weight + height * height) \div (2 * height * height)

\* the sum of the specification's rule table over a profile
TableSum(p) ==
      (IF p.age > 65 THEN 20 ELSE IF p.age > 45 THEN 15
       ELSE IF p.age > 35 THEN 10 ELSE 0)
    + (IF p.bmi >= 300 THEN 25 ELSE IF p.bmi >= 250 THEN 15
       ELSE IF p.bmi < 185 THEN 10 ELSE 0)
    + (IF p.smokingStatus = "current" THEN 20
       ELSE IF p.smokingStatus = "former" THEN 10 ELSE 0)
    + (IF p.alcoholConsumption = "heavy" THEN 15
       ELSE IF p.alcoholConsumption = "moderate" THEN 5 ELSE 0)
    + (IF p.activityLevel = "sedentary" THEN 15
       ELSE IF p.activityLevel = "moderate" THEN 5 ELSE 0)
    + (IF p.hasHypertension THEN 20 ELSE 0)
    + (IF p.hasDiabetes THEN 25 ELSE 0)
    + (IF p.hasHighBP THEN 15 ELSE 0)
    + (IF p.familyHistory.heartDisease THEN 8 ELSE 0)
    + (IF p.familyHistory.diabetes THEN 10 ELSE 0)
    + (IF p.familyHistory.hypertension THEN 8 ELSE 0)

\* what rule i of the last completed submit added to its riskScore
Added(i) == calc.steps[i] - (IF i = 1 THEN 0 ELSE calc.steps[i - 1])

\* the unclamped sum of the last completed submit
Sum == calc.steps[11]

Submitted == calc # NoCalc

(* A factor of the score, read and replaced in a profile *)

Factors ==
    {"age", "bmi", "smokingStatus", "alcoholConsumption", "activityLevel"}
        \cup FlagFields \cup FamilyFields

FactorSeq ==
    << "age", "bmi", "smokingStatus", "alcoholConsumption", "activityLevel",
       "hasHypertension", "hasDiabetes", "hasHighBP",
       "heartDisease", "diabetes", "hypertension" >>

ProbeAges == {1, 36, 46, 66, 120}
ProbeBmis == {32, 185, 250, 300, 3000}

FactorValues(f) ==
    CASE f = "age" -> ProbeAges
      [] f = "bmi" -> ProbeBmis
      [] f = "smokingStatus" -> SmokingStatuses
      [] f = "alcoholConsumption" -> AlcoholLevels
      [] f = "activityLevel" -> ActivityLevels
      [] OTHER -> BOOLEAN

Get(p, f) == IF f \in FamilyFields THEN p.familyHistory[f] ELSE p[f]

With(p, f, v) ==
    IF f \in FamilyFields
    THEN [p EXCEPT !.familyHistory[f] = v]
    ELSE [p EXCEPT ![f] = v]

\* the order in which a factor's values are said to increase the risk
Rank(f, v) ==
    CASE f \in {"age", "bmi"} -> v
      [] f = "smokingStatus" ->
            (IF v = "never" THEN 0 ELSE IF v = "former" THEN 1 ELSE 2)
      [] f = "alcoholConsumption" ->
            (IF v = "none" THEN 0 ELSE IF v = "moderate" THEN 1 ELSE 2)
      [] f = "activityLevel" ->
            (IF v = "active" THEN 0 ELSE IF v = "moderate" THEN 1 ELSE 2)
      [] OTHER -> (IF v THEN 1 ELSE 0)

\* the profile in which no rule fires
Healthy ==
    [ InitialProfile(25) EXCEPT !.bmi = 220, !.activityLevel = "active" ]

\* every value a factor takes in a submitted profile
AllValues(f) ==
    CASE f = "age" -> MinAge..MaxAge
      [] f = "bmi" -> 0..3000
      [] OTHER -> FactorValues(f)

\* the points of each value of each factor: what it adds to the healthy profile
PointsTable ==
    [ f \in Factors |->
        [ v \in AllValues(f) |->
            RiskScore(With(Healthy, f, v)) - RiskScore(Healthy) ] ]

FactorPoints(f, v) == PointsTable[f][v]

RECURSIVE PointsUpTo(_, _)
PointsUpTo(p, n) ==
    IF n = 0 THEN 0
    ELSE PointsUpTo(p, n - 1) + FactorPoints(FactorSeq[n], Get(p, FactorSeq[n]))

----------------------------------------------------------------------------
(* Claims *)

\* C1: in every state of the profile form the stored healthRiskScore is an
\* integer in 0..100.
C1_ScoreInRange == profileData.healthRiskScore \in 0..100

\* a submit whose rules sum above 100 has stored its score
C1_Witness ==
    /\ Submitted
    /\ Sum > 100
    /\ profileData.healthRiskScore = 100

\* C2: the stored predictedRisk is the threshold image of the stored
\* healthRiskScore (low below 30, medium from 30 below 60, high from 60), and
\* getRiskLevel of the profile page and of the dashboard name that category.
C2_CategoryFromScore ==
    /\ profileData.predictedRisk = ThresholdCategory(profileData.healthRiskScore)
    /\ LevelCategory(getRiskLevel(profileData.healthRiskScore))
           = profileData.predictedRisk
    /\ LevelCategory(DashboardGetRiskLevel(profileData.healthRiskScore))
           = profileData.predictedRisk

\* a submit has stored a score on a threshold
C2_Witness ==
    /\ Submitted
    /\ profileData.healthRiskScore \in {30, 60}
    /\ profileData.predictedRisk = PredictedRisk(Sum)

\* C3 as stated: in every state the stored score and category are the
\* rule-table evaluation of the fields currently stored.
C3_ScoreTracksFields ==
    /\ profileData.healthRiskScore = Min(TableSum(profileData), 100)
    /\ profileData.predictedRisk = ThresholdCategory(TableSum(profileData))

\* C3 as amended: the stored score and category are recomputed by a completed
\* submit only; in every state they are the values the last completed submit
\* computed from the fields it read, or the initial 25 and low when no submit
\* has completed, whatever the fields have been edited to since.
C3_ScoreFromLastSubmit ==
    IF Submitted
    THEN /\ profileData.healthRiskScore = Min(Sum, 100)
         /\ profileData.predictedRisk = ThresholdCategory(Sum)
    ELSE /\ profileData.healthRiskScore = InitialRiskScore
         /\ profileData.predictedRisk = "low"

\* a risk factor was edited after a submit completed, and the stored score is
\* not the evaluation of the fields now stored
C3_Witness ==
    /\ Submitted
    /\ edits > 0
    /\ profileData.age # calc.input.age
    /\ Min(RiskScore(profileData), 100) # profileData.healthRiskScore

\* C4: the bmi is brought up to date with height and weight before any further
\* user event is handled, so the bmi a submit reads agrees with the height and
\* weight it reads.
C4_SubmitReadsFreshBmi ==
    pending # NoSubmit =>
        pending.bmi = RoundedBmi(pending.height, pending.weight)

\* C5: in a submit the family-history flags add 8 (heart disease), 10
\* (diabetes) and 8 (hypertension) when true, and 0 when false.
C5_FamilyPoints ==
    Submitted =>
        /\ Added(9) = (IF calc.input.familyHistory.heartDisease THEN 8 ELSE 0)
        /\ Added(10) = (IF calc.input.familyHistory.diabetes THEN 10 ELSE 0)
        /\ Added(11) = (IF calc.input.familyHistory.hypertension THEN 8 ELSE 0)

\* C6: in a submit the age adds 20 above 65, 15 above 45 up to 65, 10 above 35
\* up to 45 and 0 up to 35, for every age in 1..120; one band applies.
C6_AgeBands ==
    Submitted =>
        LET a == calc.input.age
            bands == << a > 65, a > 45 /\ a <= 65, a > 35 /\ a <= 45, a <= 35 >>
            points == << 20, 15, 10, 0 >>
        IN  /\ a \in MinAge..MaxAge
            /\ Cardinality({i \in 1..4 : bands[i]}) = 1
            /\ \A i \in 1..4 : bands[i] => Added(1) = points[i]

\* a submit has read an age on the upper edge of a band
C6_Witness ==
    /\ Submitted
    /\ calc.input.age = 65
    /\ Added(1) = 15

\* C7: in a submit the bmi adds 25 from 30, 15 from 25 below 30, 10 below 18.5
\* and 0 from 18.5 below 25, for every bmi the heights 100..250 and weights
\* 20..300 give; one band applies.
C7_BmiBands ==
    Submitted =>
        LET b == calc.input.bmi
            bands == << b >= 300, b >= 250 /\ b < 300, b < 185, b >= 185 /\ b < 250 >>
            points == << 25, 15, 10, 0 >>
        IN  /\ Cardinality({i \in 1..4 : bands[i]}) = 1
            /\ \A i \in 1..4 : bands[i] => Added(2) = points[i]

\* a submit has read the bmi 18.5, computed from a height and a weight
C7_Witness ==
    /\ Submitted
    /\ calc.input.bmi = 185
    /\ calc.input.bmi = BMI(calc.input.height, calc.input.weight)
    /\ Added(2) = 0

\* C8: in a submit smoking adds 20 / 10 / 0 (current / former / never), alcohol
\* 15 / 5 / 0 (heavy / moderate / none), activity 15 / 5 / 0 (sedentary /
\* moderate / active), and the flags hasHypertension 20, hasDiabetes 25 and
\* hasHighBP 15 when true, 0 when false.
C8_LifestyleAndConditionPoints ==
    Submitted =>
        LET p == calc.input
        IN  /\ Added(3) = (CASE p.smokingStatus = "current" -> 20
                             [] p.smokingStatus = "former" -> 10
                             [] p.smokingStatus = "never" -> 0)
            /\ Added(4) = (CASE p.alcoholConsumption = "heavy" -> 15
                             [] p.alcoholConsumption = "moderate" -> 5
                             [] p.alcoholConsumption = "none" -> 0)
            /\ Added(5) = (CASE p.activityLevel = "sedentary" -> 15
                             [] p.activityLevel = "moderate" -> 5
                             [] p.activityLevel = "active" -> 0)
            /\ Added(6) = (IF p.hasHypertension THEN 20 ELSE 0)
            /\ Added(7) = (IF p.hasDiabetes THEN 25 ELSE 0)
            /\ Added(8) = (IF p.hasHighBP THEN 15 ELSE 0)

\* a submit has read a profile in which every one of these six rules fires
C8_Witness ==
    /\ Submitted
    /\ calc.input.smokingStatus = "former"
    /\ calc.input.alcoholConsumption = "heavy"
    /\ calc.input.activityLevel = "sedentary"
    /\ calc.input.hasHypertension
    /\ calc.input.hasDiabetes
    /\ calc.input.hasHighBP
    /\ Added(7) = 25

\* C9: the stored score is min(S, 100), S the sum of the points of the eleven
\* factors, and replacing one factor of the profile changes S by the difference
\* of that factor's points, whatever the other factors are.
C9_IndependentSum ==
    Submitted =>
        /\ profileData.healthRiskScore = Min(Sum, 100)
        /\ Sum = PointsUpTo(calc.input, 11)
        /\ \A f \in Factors : \A v \in FactorValues(f) :
               RiskScore(With(calc.input, f, v)) - Sum
                   = FactorPoints(f, v) - FactorPoints(f, Get(calc.input, f))

\* a submit has read a profile with several rules firing, summing above 100
C9_Witness ==
    /\ Submitted
    /\ Sum > 100
    /\ profileData.healthRiskScore = 100
    /\ calc.input.hasHypertension
    /\ calc.input.hasHighBP
    /\ calc.input.age > 65

\* C10 as stated: raising any one factor of a submitted profile (age, bmi,
\* smoking, alcohol, activity, a condition or family-history flag) never lowers
\* the score.
C10_MonotoneInEveryFactor ==
    Submitted =>
        \A f \in Factors : \A v \in FactorValues(f) :
            Rank(f, v) >= Rank(f, Get(calc.input, f)) =>
                /\ RiskScore(With(calc.input, f, v)) >= Sum
                /\ StoredScore(RiskScore(With(calc.input, f, v)))
                       >= profileData.healthRiskScore

\* C10 as amended: raising age, smoking, alcohol, activity or a flag never
\* lowers the score, and raising the bmi never lowers it from a bmi of 18.5 or
\* more; a bmi below 18.5 scores 10, more than the 0 of the band above it.
C10_MonotoneExceptUnderweight ==
    Submitted =>
        /\ \A f \in Factors : \A v \in FactorValues(f) :
               ( /\ Rank(f, v) >= Rank(f, Get(calc.input, f))
                 /\ (f = "bmi" => calc.input.bmi >= 185) )
               => ( /\ RiskScore(With(calc.input, f, v)) >= Sum
                    /\ StoredScore(RiskScore(With(calc.input, f, v)))
                           >= profileData.healthRiskScore )
        /\ calc.input.bmi < 185 =>
               RiskScore(With(calc.input, "bmi", 185)) = Sum - 10

\* a submit has read an underweight profile of a former smoker: raising the
\* smoking status raises the score, raising the bmi to 18.5 lowers it
C10_Witness ==
    /\ Submitted
    /\ calc.input.bmi < 185
    /\ calc.input.smokingStatus = "former"
    /\ RiskScore(With(calc.input, "smokingStatus", "current")) > Sum
    /\ RiskScore(With(calc.input, "bmi", 185)) < Sum

\* C11: a submit of a profile whose rule points sum above 100 stores exactly
\* 100 and the category high; the profile of age 70, bmi 30 or more, current
\* smoker, heavy alcohol, sedentary, with all three condition flags and all
\* three family-history flags, is one of them.
C11_ClampedToHundred ==
    Submitted =>
        LET p == calc.input
            full == /\ p.age = 70
                    /\ p.bmi >= 300
                    /\ p.smokingStatus = "current"
                    /\ p.alcoholConsumption = "heavy"
                    /\ p.activityLevel = "sedentary"
                    /\ \A f \in FlagFields : p[f]
                    /\ \A f \in FamilyFields : p.familyHistory[f]
        IN  /\ full => TableSum(p) > 100
            /\ TableSum(p) > 100 =>
                   /\ profileData.healthRiskScore = 100
                   /\ profileData.predictedRisk = "high"

\* the profile with every rule firing has been submitted
C11_Witness ==
    /\ Submitted
    /\ calc.input.age = 70
    /\ calc.input.bmi >= 300
    /\ calc.input.smokingStatus = "current"
    /\ calc.input.alcoholConsumption = "heavy"
    /\ calc.input.activityLevel = "sedentary"
    /\ \A f \in FlagFields : calc.input[f]
    /\ \A f \in FamilyFields : calc.input.familyHistory[f]
    /\ Sum > 100
    /\ profileData.healthRiskScore = 100
    /\ profileData.predictedRisk = "high"

\* C12: a submit of a profile in which no rule fires (age up to 35, bmi from
\* 18.5 below 25, never smoked, no alcohol, active, no condition flag, no
\* family-history flag; age 25 with bmi 22 is one) stores the score 0 and the
\* category low.
C12_HealthyScoresZero ==
    Submitted =>
        LET p == calc.input
            noRule == /\ p.age <= 35
                      /\ p.bmi >= 185
                      /\ p.bmi < 250
                      /\ p.smokingStatus = "never"
                      /\ p.alcoholConsumption = "none"
                      /\ p.activityLevel = "active"
                      /\ \A f \in FlagFields : ~p[f]
                      /\ \A f \in FamilyFields : ~p.familyHistory[f]
        IN  noRule =>
                /\ Sum = 0
                /\ profileData.healthRiskScore = 0
                /\ profileData.predictedRisk = "low"

\* the profile of age 25 and bmi 22.0 has been submitted
C12_Witness ==
    /\ Submitted
    /\ calc.input.age = 25
    /\ calc.input.bmi = 220
    /\ calc.input.activityLevel = "active"
    /\ profileData.healthRiskScore = 0
    /\ profileData.predictedRisk = "low"

\* the fields a submit reads, the stored score and category left out
ScoreInputs(p) ==
    << p.age, p.bmi, p.height, p.weight, p.smokingStatus, p.alcoholConsumption,
       p.activityLevel, p.hasHypertension, p.hasDiabetes, p.hasHighBP,
       p.familyHistory >>

\* C13: when a submit completes that read the same field values as the submit
\* completed before it, it stores the score and the category already stored,
\* whatever score and category each of the two found stored when it started.
C13_Deterministic ==
    [][ ( /\ pending # NoSubmit
          /\ pending' = NoSubmit
          /\ Submitted
          /\ ScoreInputs(calc.input) = ScoreInputs(pending) )
        => ( /\ profileData'.healthRiskScore = profileData.healthRiskScore
             /\ profileData'.predictedRisk = profileData.predictedRisk ) ]_vars

\* a second submit of the same fields has completed: it found stored the
\* score of the first, different from the 25 the first found
C13_Witness ==
    /\ Submitted
    /\ pending = NoSubmit
    /\ ScoreInputs(calc.input) = ScoreInputs(profileData)
    /\ calc.input.healthRiskScore # InitialRiskScore
    /\ calc.input.healthRiskScore = profileData.healthRiskScore
    /\ calc.input.predictedRisk = profileData.predictedRisk

\* C14: for every height in 100..250 and weight in 20..300 the bmi the BMI
\* effect stores is weight / (height/100)^2 rounded to one decimal (24.2 for
\* 170 and 70).
C14_BmiRoundedQuotient ==
    ( /\ ~bmiEffect
      /\ profileData.height \in MinHeight..MaxHeight
      /\ profileData.weight \in MinWeight..MaxWeight )
    => profileData.bmi = RoundedBmi(profileData.height, profileData.weight)

\* C15: getBMICategory puts the bmi a submit reads, when finite, into exactly
\* one of four bands (Underweight below 18.5, Normal from 18.5 below 25,
\* Overweight from 25 below 30, Obese from 30), and the band is the bucket of
\* the points the submit adds for that bmi: 10, 0, 15 and 25.
C15_CategoryMatchesPoints ==
    (Submitted /\ calc.input.bmi \notin {Infinity, NaN}) =>
        LET b == calc.input.bmi
            band == [ Underweight |-> b < 185,
                      Normal |-> b >= 185 /\ b < 250,
                      Overweight |-> b >= 250 /\ b < 300,
                      Obese |-> b >= 300 ]
            points == [ Underweight |-> 10, Normal |-> 0, Overweight |-> 15,
                        Obese |-> 25 ]
        IN  /\ getBMICategory(b) \in DOMAIN band
            /\ \A c \in DOMAIN band : band[c] <=> c = getBMICategory(b)
            /\ Added(2) = points[getBMICategory(b)]

\* a submit has read the bmi 25.0, the lower edge of the overweight band
C15_Witness ==
    /\ Submitted
    /\ calc.input.bmi = 250
    /\ getBMICategory(calc.input.bmi) = "Overweight"
    /\ Added(2) = 15

\* the fields the change handlers write
EditedFields(p) ==
    << p.height, p.weight, p.age, p.smokingStatus, p.alcoholConsumption,
       p.activityLevel, p.hasHypertension, p.hasDiabetes, p.hasHighBP,
       p.familyHistory >>

\* C16 as stated: no field-change event is handled between the submit event
\* and the write of its score, so while a submit is under way the fields are
\* those it started with.
C16_NoEditDuringSubmit ==
    pending # NoSubmit => EditedFields(profileData) = EditedFields(pending)

\* C16 as amended: a submit waits between its event and its computation, and
\* field changes can be handled during the wait; for the whole wait loading
\* is true and the stored score and category are still those the submit
\* found, the write coming with the computation when the wait ends.
C16_WriteAfterWait ==
    /\ loading <=> pending # NoSubmit
    /\ pending # NoSubmit =>
           /\ profileData.healthRiskScore = pending.healthRiskScore
           /\ profileData.predictedRisk = pending.predictedRisk

\* a field was edited while a submit was waiting
C16_Witness ==
    /\ pending # NoSubmit
    /\ loading
    /\ edits > 0
    /\ profileData.age # pending.age
    /\ profileData.healthRiskScore = pending.healthRiskScore

\* C17 as stated: no input has an error outcome, the height 0 included: the
\* BMI effect stores the non-finite quotient unclamped, no submit ends on the
\* failure path, and no guard rejects the degenerate input, so a form holding
\* the height 0 can be submitted like any other.
C17_NothingRejected ==
    /\ toast # "error"
    /\ (~bmiEffect /\ profileData.height = EmptyInput) =>
           profileData.bmi \in {Infinity, NaN}
    /\ (~loading /\ profileData.height = EmptyInput) => ENABLED handleSubmit

\* C17 as amended: nothing raises and no handler guards or clamps: a height
\* of 0 is stored as typed, the BMI effect then stores Infinity (NaN when the
\* weight is 0 too), and every submit that is handled ends on the success
\* path, also when the bmi it reads is Infinity, which scores as obese. But a
\* form whose height, weight or age is outside its input's range is rejected
\* at submission by the required number inputs, so no submit reads a height
\* of 0.
C17_NoErrorOutcome ==
    /\ toast # "error"
    /\ Submitted <=> toast = "success"
    /\ (~bmiEffect /\ profileData.height = EmptyInput) =>
           profileData.bmi =
               (IF profileData.weight = EmptyInput THEN NaN ELSE Infinity)
    /\ (Submitted /\ calc.input.bmi = Infinity) =>
           /\ Added(2) = 25
           /\ profileData.healthRiskScore = Min(Sum, 100)
    /\ pending # NoSubmit => FormValid(pending)
    /\ Submitted => FormValid(calc.input)
    /\ (~loading /\ ~FormValid(profileData)) => ~ENABLED handleSubmit

\* a submit has completed on the success path with the bmi Infinity, which a
\* height of 0 had left behind
C17_Witness ==
    /\ Submitted
    /\ calc.input.bmi = Infinity
    /\ calc.input.height # EmptyInput
    /\ toast = "success"
    /\ Added(2) = 25

\* C18: the step that completes a submit changes only healthRiskScore and
\* predictedRisk (and loading): every other field of the profile keeps the
\* value it has at that moment, edits made during the wait included.
C18_SubmitWritesOnlyScore ==
    [][ (pending # NoSubmit /\ pending' = NoSubmit)
        => ( /\ EditedFields(profileData') = EditedFields(profileData)
             /\ profileData'.bmi = profileData.bmi
             /\ UNCHANGED <<bmiEffect, edits, metrics>> ) ]_vars

\* a submit has completed whose profile was edited while it waited, and the
\* edited value is still stored
C18_Witness ==
    /\ Submitted
    /\ pending = NoSubmit
    /\ calc.before.age # calc.input.age
    /\ profileData.age = calc.before.age
    /\ profileData.healthRiskScore = Min(Sum, 100)

\* C19 as stated: once a profile submit has stored a score, the risk score
\* and the risk level the dashboard shows are that score and its category.
C19_DashboardShowsStoredScore ==
    Submitted =>
        /\ metrics.riskScore = profileData.healthRiskScore
        /\ LevelCategory(DashboardGetRiskLevel(metrics.riskScore))
               = profileData.predictedRisk

\* C19 as amended: the dashboard shows the risk score 25 it was constructed
\* with and the level Low its getRiskLevel gives for it, whatever the profile
\* form has stored.
C19_DashboardFixedScore ==
    /\ metrics.riskScore = 25
    /\ DashboardGetRiskLevel(metrics.riskScore) = "Low"

\* a submit has stored a score and category other than the dashboard's
C19_Witness ==
    /\ Submitted
    /\ profileData.healthRiskScore # metrics.riskScore
    /\ profileData.predictedRisk = "high"
    /\ DashboardGetRiskLevel(metrics.riskScore) = "Low"

\* C20: for a one-decimal bmi v, getStatusColor('bmi', v) is the underweight
\* colour exactly when v < 18.5, green exactly when 18.5 <= v < 25, and
\* yellow exactly when v >= 25; checked on every bmi the form computes.
C20_BmiColourBands ==
    LET v == profileData.bmi
        colour == getStatusColor("bmi", v)
    IN  v \notin {Infinity, NaN} =>
            /\ colour = "text-blue-600" <=> v < 185
            /\ colour = "text-green-600" <=> (v >= 185 /\ v < 250)
            /\ colour = "text-yellow-600" <=> v >= 250

\* C21: when a login or register request reports success, the user is the
\* returned user, vitalae_token holds the returned token, the Authorization
\* header is 'Bearer ' followed by that token, and the call resolves to true;
\* the three writes are one step: while the request is in flight none of
\* them is applied.
C21_SessionInit ==
    authEvent.op \in {"login", "register"} =>
        IF authEvent.outcome = "success"
        THEN /\ user = authEvent.responseUser
             /\ storedToken = authEvent.responseToken
             /\ authorization = <<"Bearer ", authEvent.responseToken>>
             /\ authEvent.returned = TRUE
        ELSE authEvent.outcome = "pending" => Session = authEvent.before

\* a register has succeeded over an established session of another user
C21_Witness ==
    /\ authEvent.op = "register"
    /\ authEvent.outcome = "success"
    /\ authEvent.before[1] # NoUser
    /\ authEvent.before[1] # user
    /\ authEvent.before[2] # storedToken
    /\ authorization = <<"Bearer ", storedToken>>

\* C22: right after a logout, whatever the state before it, user is null, no
\* vitalae_token is stored and axios has no Authorization default header.
C22_SessionTeardown ==
    authEvent.op = "logout" =>
        /\ user = NoUser
        /\ storedToken = NoToken
        /\ authorization = NoHeader

\* a logout has run on an established session with a request in flight
C22_Witness ==
    /\ authEvent.op = "logout"
    /\ authEvent.before[1] # NoUser
    /\ authEvent.before[2] # NoToken
    /\ authEvent.before[3] # NoHeader
    /\ requests # {}
    /\ user = NoUser

\* C23: when the profile check of a stored token ends with success=false or an
\* exception, the token is removed, the header deleted, user is null and
\* loading is false; when no token is stored the mount issues no request and
\* leaves loading false and user null.
C23_InvalidTokenTeardown ==
    /\ (authEvent.op = "checkAuth" /\ authEvent.outcome # "success") =>
           /\ storedToken = NoToken
           /\ authorization = NoHeader
           /\ user = NoUser
           /\ ~authLoading
    /\ authEvent.op = "mount" =>
           IF authEvent.before[2] = NoToken
           THEN requests = {} /\ ~authLoading /\ user = NoUser
           ELSE requests # {} /\ authLoading /\ user = NoUser

\* the check of a stored token has ended with an exception
C23_Witness ==
    /\ authEvent.op = "checkAuth"
    /\ authEvent.outcome = "rejected"
    /\ authEvent.before[2] \in Tokens
    /\ authEvent.before[3] = <<"Bearer ", authEvent.before[2]>>
    /\ storedToken = NoToken
    /\ ~authLoading

\* C24: in every state, whenever user is non-null a vitalae_token is stored
\* and the Authorization header is 'Bearer ' followed by the stored token.
C24_SessionConsistent ==
    user # NoUser =>
        /\ storedToken # NoToken
        /\ authorization = <<"Bearer ", storedToken>>

\* C25: from a logout until a login or register call issued after it
\* succeeds, user is null and no vitalae_token is stored, whatever responses
\* arrive for requests issued before the logout.
C25_LogoutNotUndone ==
    loggedOut =>
        /\ user = NoUser
        /\ storedToken = NoToken

\* C26: a login or register that fails (success=false or a rejected request)
\* resolves to false and leaves user, the stored token and the Authorization
\* header as they were, an established session included; the call itself
\* changes none of them either.
C26_FailureLeavesSession ==
    (authEvent.op \in {"login", "register"} /\ authEvent.outcome # "success") =>
        /\ Session = authEvent.before
        /\ authEvent.outcome \in {"failure", "rejected"} =>
               /\ authEvent.returned = FALSE
               /\ authEvent.toast = "error"

\* a register was rejected while a session was established
C26_Witness ==
    /\ authEvent.op = "register"
    /\ authEvent.outcome = "rejected"
    /\ authEvent.returned = FALSE
    /\ user # NoUser
    /\ storedToken # NoToken
    /\ Session = authEvent.before

\* what is shown on a protected path
ProtectedView == ProtectedRoute(user, authLoading)

\* C27: on /dashboard, /profile and /analytics the page content is rendered
\* exactly when the auth loading flag is false and user is non-null; while
\* loading is true the spinner is rendered and nothing redirects; when
\* loading is false and user is null the route redirects to /login and
\* renders no content.
C27_RouteProtection ==
    /\ ProtectedView = "content" <=> (~authLoading /\ user # NoUser)
    /\ authLoading =>
           /\ ProtectedView = "spinner"
           /\ ~ENABLED RedirectToLogin
    /\ (~authLoading /\ user = NoUser) => ProtectedView = "redirect"
    /\ (mounted /\ location \in ProtectedPaths /\ ProtectedView = "redirect")
           => ENABLED RedirectToLogin

\* a protected path is open while no user is signed in and nothing is loading
C27_Witness ==
    /\ mounted
    /\ location \in ProtectedPaths
    /\ ~authLoading
    /\ user = NoUser
    /\ ProtectedView = "redirect"

\* C28: on a load with a stored token, loading is true from the mount until
\* the result of the profile check is applied, and a successful check leaves
\* user non-null when it sets loading false: neither while the check is in
\* flight nor when it has succeeded does ProtectedRoute redirect.
C28_NoPrematureRedirect ==
    /\ ~mounted => authLoading
    /\ (\E r \in requests : r.kind = "profile") =>
           /\ authLoading
           /\ ProtectedView = "spinner"
           /\ ~ENABLED RedirectToLogin
    /\ (authEvent.op = "checkAuth" /\ authEvent.outcome = "success") =>
           /\ user # NoUser
           /\ ~authLoading
           /\ ProtectedView = "content"
           /\ ~ENABLED RedirectToLogin

\* the check of a stored token has succeeded on a protected path
C28_Witness ==
    /\ authEvent.op = "checkAuth"
    /\ authEvent.outcome = "success"
    /\ authEvent.before[2] \in Tokens
    /\ location \in ProtectedPaths
    /\ user # NoUser
    /\ ~authLoading

\* C29: when the request of the auth check, of a login or of a register has
\* ended, whatever its outcome, loading is false; once the provider is
\* mounted loading is true only while a request is in flight; and, requests
\* completing, loading that is true eventually becomes false.
C29_LoadingNotStuck ==
    /\ []( /\ (authEvent.op \in {"checkAuth", "login", "register"}
                  /\ authEvent.outcome \in Outcomes) => ~authLoading
           /\ (mounted /\ requests = {}) => ~authLoading )
    /\ (authLoading ~> ~authLoading)

\* a login request was rejected and loading is false again
C29_Witness ==
    /\ authEvent.op = "login"
    /\ authEvent.outcome = "rejected"
    /\ requests = {}
    /\ ~authLoading

\* C30: the score and category a submit writes are the rule-table evaluation
\* of the fields (bmi included) as the submit event found them, whatever was
\* edited during the wait; and while a submit is pending the page is loading
\* and no second submit can start.
C30_SnapshotTableScore ==
    /\ Submitted =>
           /\ profileData.healthRiskScore = Min(TableSum(calc.input), 100)
           /\ profileData.predictedRisk = ThresholdCategory(TableSum(calc.input))
    /\ pending # NoSubmit =>
           /\ loading
           /\ ~ENABLED handleSubmit

====
